---- MODULE Spec2Model ----
(***************************************************************************)
(* TrackPulse: the status/tag reconciliation between the shipment          *)
(* dashboard and the external invoice document (tags + notes).             *)
(*                                                                         *)
(* A string is a sequence of tokens. A token is a word ("with", "issue",   *)
(* "sensor", ...), a hyphen "-", a blank " ", the notes separator ": " or  *)
(* the newline "\n". The words are prefix-free, so two token sequences     *)
(* spell the same string exactly when they are equal.                      *)
(***************************************************************************)
EXTENDS Integers, Sequences, FiniteSets, TLC

VARIABLES
    doc,        \* the external document: [tags, notes, date, desc, customFields, products]
    route,      \* which copy of the update route serves PUT /api/invoices/:id/update
    req,        \* per caller: the update request in flight through the route
    orig,       \* the document's tag entries at the start (history, for the claims)
    lastWrite,  \* the body tags of the last tag write the store applied, and whether it
                \* repeated the one before (history)
    others,     \* the other invoices of the store, listed after doc
    listing,    \* the last answer of GET /api/invoices
    now,        \* the clock
    client,     \* per role: the dashboard open in that user's browser
    tz,         \* the browsers' time zone, in hours from UTC
    holdedStock, \* the store's stock of each product
    updates     \* how many updates the dashboards have sent (history)

vars == <<doc, route, req, orig, lastWrite, others, listing, now, client, tz, holdedStock,
          updates>>

\* what the update route never touches
routeFrame == <<route, orig, others, listing, now, client, tz, holdedStock, updates>>

\* what the listing route never touches
listingFrame == <<doc, route, req, orig, lastWrite, others, now, client, tz, holdedStock,
                  updates>>

-----------------------------------------------------------------------------
(* Strings *)

\* String.prototype.toLowerCase, token by token
LowerTok(t) ==
    CASE t = "Sensor" -> "sensor"
      [] t = "Delivered" -> "delivered"
      [] t = "With" -> "with"
      [] t = "TRUE" -> "true"
      [] OTHER -> t

ToLowerCase(s) == [i \in DOMAIN s |-> LowerTok(s[i])]

IsSpace(t) == t \in {" ", "\n"}

\* s.replace(/\s+/g, by): every maximal run of whitespace becomes one `by`
RECURSIVE ReplaceSpacesBy(_, _)
ReplaceSpacesBy(s, by) ==
    IF s = <<>> THEN <<>>
    ELSE IF IsSpace(Head(s))
         THEN IF Len(s) > 1 /\ IsSpace(s[2])
              THEN ReplaceSpacesBy(Tail(s), by)
              ELSE <<by>> \o ReplaceSpacesBy(Tail(s), by)
         ELSE <<Head(s)>> \o ReplaceSpacesBy(Tail(s), by)

\* s.replace(/\s+/g, '-')
ReplaceSpaces(s) == ReplaceSpacesBy(s, "-")

\* s.split(sep): the segments between the occurrences of the token sep
RECURSIVE Split(_, _)
Split(s, sep) ==
    IF s = <<>> THEN << <<>> >>
    ELSE LET rest == Split(Tail(s), sep)
         IN IF Head(s) = sep THEN << <<>> >> \o rest
            ELSE << <<Head(s)>> \o Head(rest) >> \o Tail(rest)

\* segs.join(sep)
RECURSIVE Join(_, _)
Join(segs, sep) ==
    IF segs = <<>> THEN <<>>
    ELSE IF Len(segs) = 1 THEN segs[1]
    ELSE segs[1] \o <<sep>> \o Join(Tail(segs), sep)

\* s.trim()
RECURSIVE TrimLeft(_)
TrimLeft(s) == IF s # <<>> /\ IsSpace(Head(s)) THEN TrimLeft(Tail(s)) ELSE s

RECURSIVE TrimRight(_)
TrimRight(s) ==
    IF s # <<>> /\ IsSpace(s[Len(s)]) THEN TrimRight(SubSeq(s, 1, Len(s) - 1)) ELSE s

Trim(s) == TrimRight(TrimLeft(s))

\* s.replace(/-/g, '')
StripHyphens(s) == SelectSeq(s, LAMBDA t : t # "-")

\* Array.prototype.includes
Includes(list, x) == \E i \in DOMAIN list : list[i] = x

\* [...new Set(list)]: first occurrences, in order
RECURSIVE Dedupe(_)
Dedupe(list) ==
    IF list = <<>> THEN <<>>
    ELSE LET init == Dedupe(SubSeq(list, 1, Len(list) - 1))
             last == list[Len(list)]
         IN IF Includes(init, last) THEN init ELSE Append(init, last)

SetOf(list) == {list[i] : i \in DOMAIN list}

MapSeq(F(_), list) == [i \in DOMAIN list |-> F(list[i])]

-----------------------------------------------------------------------------
(* Status model *)

PendingConfirmation == <<"pending", "-", "confirmation">>
InTransit == <<"in", "-", "transit">>
Delivered == <<"delivered">>
WithIssue == <<"with", "-", "issue">>
Cancelled == <<"cancelled">>
OrderConfirmed == <<"order", "-", "confirmed">>

\* defaultShipmentStatuses.map(s => s.id), in the order of the table
defaultShipmentStatuses == <<PendingConfirmation, InTransit, Delivered, WithIssue, Cancelled>>

ShipmentStatus == SetOf(defaultShipmentStatuses)

-----------------------------------------------------------------------------
(* Tag entries of the external document: a bare string, a {name} object, or *)
(* any other JSON value (number, null, object without a name).              *)

Str(name) == [shape |-> "string", name |-> name]
Obj(name) == [shape |-> "object", name |-> name]
Other == [shape |-> "other", name |-> <<>>]

\* .filter(Boolean) on a list of strings: the empty string is dropped
FilterBoolean(list) == SelectSeq(list, LAMBDA s : s # <<>>)

-----------------------------------------------------------------------------
(* The update route, copy A: src/api/invoices/[invoiceId]/update/route.ts *)

ALL_MANAGEABLE_STATUS_TAG_IDS == defaultShipmentStatuses

ALL_POSSIBLE_APP_MANAGED_TAGS == Dedupe(ALL_MANAGEABLE_STATUS_TAG_IDS \o <<OrderConfirmed>>)

\* the keys of knownMappings are the hyphen-less names, its values the internal ids
knownMappings(lowerTag) ==
    CASE lowerTag = <<"pending", "confirmation">> -> PendingConfirmation
      [] lowerTag = <<"order", "confirmed">> -> OrderConfirmed
      [] lowerTag = <<"in", "transit">> -> InTransit
      [] lowerTag = <<"with", "issue">> -> WithIssue
      [] lowerTag = <<"delivered">> -> Delivered
      [] lowerTag = <<"cancelled">> -> Cancelled
      [] OTHER -> <<>>

normalizeHoldedTagToInternal(tag) ==
    IF tag.shape \notin {"string", "object"} THEN <<>>
    ELSE LET lowerTag == ToLowerCase(tag.name)
         IN IF knownMappings(lowerTag) # <<>> THEN knownMappings(lowerTag)
            ELSE ReplaceSpaces(lowerTag)

\* mutant: the hyphens are removed from every tag, app-managed or not
convertInternalTagToHoldedFormat_AllStripped(internalTag) ==
    StripHyphens(ToLowerCase(internalTag))

convertInternalTagToHoldedFormat(internalTag) ==
    LET lowerInternalTag == ToLowerCase(internalTag)
        isAppManaged == Includes(ALL_POSSIBLE_APP_MANAGED_TAGS, lowerInternalTag)
    IN IF isAppManaged THEN StripHyphens(lowerInternalTag) ELSE lowerInternalTag

existingTagsInternalFormat(existingRawTags) ==
    FilterBoolean(MapSeq(normalizeHoldedTagToInternal, existingRawTags))

\* mutant: the filter keeps the app-managed tags instead of the others
otherNonStatusTagsToPreserveInternalFormat_Inverted(existingRawTags) ==
    SelectSeq(existingTagsInternalFormat(existingRawTags),
              LAMBDA tag : Includes(ALL_POSSIBLE_APP_MANAGED_TAGS, tag))

otherNonStatusTagsToPreserveInternalFormat(existingRawTags) ==
    SelectSeq(existingTagsInternalFormat(existingRawTags),
              LAMBDA tag : ~Includes(ALL_POSSIBLE_APP_MANAGED_TAGS, tag))

\* (bodyFromClient.tags || []).map(tag => tag.toLowerCase().replace(/\s+/g, '-'))
newAppManagedTagsFromClientInternalFormat(bodyTags) ==
    MapSeq(LAMBDA tag : ReplaceSpaces(ToLowerCase(tag)), bodyTags)

combinedTagsInternalFormat(existingRawTags, bodyTags) ==
    Dedupe(otherNonStatusTagsToPreserveInternalFormat(existingRawTags)
           \o newAppManagedTagsFromClientInternalFormat(bodyTags))

finalTagsForHoldedPayload(existingRawTags, bodyTags) ==
    MapSeq(convertInternalTagToHoldedFormat, combinedTagsInternalFormat(existingRawTags, bodyTags))

-----------------------------------------------------------------------------
(* The update route, copy B: src/unnamed/part_002 *)

existingTagsNormalized(existingRawTags) ==
    FilterBoolean(MapSeq(LAMBDA tag : IF tag.shape \in {"string", "object"}
                                      THEN ReplaceSpaces(ToLowerCase(tag.name))
                                      ELSE <<>>,
                         existingRawTags))

otherNonStatusTagsToPreserve(existingRawTags) ==
    SelectSeq(existingTagsNormalized(existingRawTags),
              LAMBDA tag : ~Includes(ALL_POSSIBLE_APP_MANAGED_TAGS, tag))

newAppManagedTagsFromClient(bodyTags) ==
    MapSeq(LAMBDA tag : ReplaceSpaces(ToLowerCase(tag)), bodyTags)

finalTagsForHolded(existingRawTags, bodyTags) ==
    Dedupe(otherNonStatusTagsToPreserve(existingRawTags) \o newAppManagedTagsFromClient(bodyTags))

Routes == {"A", "B"}

\* the tag list either copy of the route puts in its payload
MergedTags(r, existingRawTags, bodyTags) ==
    IF r = "A" THEN finalTagsForHoldedPayload(existingRawTags, bodyTags)
    ELSE finalTagsForHolded(existingRawTags, bodyTags)


-----------------------------------------------------------------------------
(* The external document (a Holded invoice), as the routes read it *)

NoNotes == [shape |-> "absent", text |-> <<>>]
NotesOf(text) == [shape |-> "string", text |-> text]
NoDesc == [shape |-> "absent", hasPrefix |-> FALSE, title |-> <<>>, hasSuffix |-> FALSE,
           suffix |-> <<>>]
NoCustomFields == [shape |-> "absent", items |-> <<>>]
NoProducts == [shape |-> "absent", items |-> <<>>]

BaseDoc == [id |-> <<"inv1">>, tags |-> <<>>, notes |-> NoNotes,
            date |-> [present |-> TRUE, ts |-> 0], desc |-> NoDesc,
            customFields |-> NoCustomFields, products |-> NoProducts]

\* all lists over pool of length at most n
ListsUpTo(pool, n) == UNION {[1..k -> pool] : k \in 0..n}

-----------------------------------------------------------------------------
(* Dates. A time is a number of hours since 2025-05-10T00:00Z; the model's   *)
(* times fall on the hours of HourSet.                                       *)

AllDays == 0..9
HourSet == {0, 12}
AllTimes == {d * 24 + h : d \in AllDays, h \in HourSet}

\* format(date, 'yyyy-MM-dd') of a day
DayStr(d) == "2025-05-1" \o ToString(d)

HourStr(h) == IF h < 10 THEN "0" \o ToString(h) ELSE ToString(h)

\* Date.prototype.toISOString
toISOString(ts) == DayStr(ts \div 24) \o "T" \o HourStr(ts % 24) \o ":00:00.000Z"

NoTime == [has |-> FALSE, ts |-> 0]
Time(ts) == [has |-> TRUE, ts |-> ts]

\* /^\d{4}-\d{2}-\d{2}$/.test(value)
IsDateShaped(value) ==
    /\ Len(value) = 1
    /\ value[1] \in {DayStr(d) : d \in AllDays} \cup {"2025-13-45"}

\* parseISO of a full ISO timestamp; an invalid date otherwise
parseISO(value) ==
    IF Len(value) = 1 /\ \E ts \in AllTimes : toISOString(ts) = value[1]
    THEN Time(CHOOSE ts \in AllTimes : toISOString(ts) = value[1])
    ELSE NoTime

\* parseISO(value + "T00:00:00.000Z") of a date-shaped value: UTC midnight
parseDateAsUtcMidnight(value) ==
    IF \E d \in AllDays : DayStr(d) = value[1]
    THEN Time(24 * (CHOOSE d \in AllDays : DayStr(d) = value[1]))
    ELSE NoTime

\* format(parseISO(iso), 'yyyy-MM-dd') in a browser whose zone is offset hours from UTC
formatLocalDay(ts, offset) == DayStr((ts + offset) \div 24)

-----------------------------------------------------------------------------
(* The decoder: GET /api/invoices, src/app/api/invoices/route.ts *)

NoText == [has |-> FALSE, text |-> <<>>]
Text(t) == [has |-> TRUE, text |-> t]

NoParsed == [title |-> NoText, origin |-> NoText, destination |-> NoText,
             estimatedDelivery |-> NoTime, actualDelivery |-> NoTime,
             issueDescription |-> NoText, id |-> NoText,
             isOrderConfirmed |-> [has |-> FALSE, v |-> FALSE]]

\* one line of the notes, applied to what the lines before it gave
parseLine(parsed, line) ==
    LET parts == Split(line, ": ")
        key == parts[1]
        value == Trim(Join(Tail(parts), ": "))
    IN CASE key = <<"Shipment Title">> -> [parsed EXCEPT !.title = Text(value)]
         [] key = <<"Origin">> -> [parsed EXCEPT !.origin = Text(value)]
         [] key = <<"Destination">> -> [parsed EXCEPT !.destination = Text(value)]
         [] key = <<"Est. Delivery">> ->
              LET dateObj == IF IsDateShaped(value) THEN parseDateAsUtcMidnight(value)
                             ELSE parseISO(value)   \* new Date(value)
              IN IF dateObj.has THEN [parsed EXCEPT !.estimatedDelivery = dateObj] ELSE parsed
         [] key = <<"Actual Delivery">> ->
              LET dateObj == parseISO(value)
              IN IF dateObj.has THEN [parsed EXCEPT !.actualDelivery = dateObj] ELSE parsed
         [] key = <<"Issue">> -> [parsed EXCEPT !.issueDescription = Text(value)]
         [] key = <<"Internal Shipment ID">> -> [parsed EXCEPT !.id = Text(value)]
         [] key = <<"Order Confirmed">> ->
              [parsed EXCEPT !.isOrderConfirmed =
                                [has |-> TRUE, v |-> ToLowerCase(value) = <<"true">>]]
         [] OTHER -> parsed

RECURSIVE parseLines(_, _)
parseLines(parsed, lines) ==
    IF lines = <<>> THEN parsed
    ELSE parseLines(parseLine(parsed, Head(lines)), Tail(lines))

\* parseShipmentNotes of a string (or of no notes at all)
parseShipmentNotes(notes) ==
    IF notes.shape = "absent" \/ notes.text = <<>> THEN NoParsed
    ELSE parseLines(NoParsed, Split(notes.text, "\n"))

\* customFields.find(cf => cf.field === 'shipment_id'): the index found, 0 for
\* none, -1 when the search dereferences a null entry first
RECURSIVE findShipmentIdField(_, _)
findShipmentIdField(items, i) ==
    IF i > Len(items) THEN 0
    ELSE IF items[i].shape = "null" THEN -1
    ELSE IF items[i].field = "shipment_id" THEN i
    ELSE findShipmentIdField(items, i + 1)

\* the tags as the record keeps them: lowercased, whitespace hyphenated, no empties
invTags(inv) ==
    FilterBoolean(MapSeq(LAMBDA tag : IF tag.shape \in {"string", "object"}
                                      THEN ReplaceSpaces(ToLowerCase(tag.name))
                                      ELSE <<>>,
                         inv.tags))

tagToInternalStatusMap(key) == knownMappings(key)

normalizedInvTags(inv) ==
    MapSeq(LAMBDA tag : IF tagToInternalStatusMap(StripHyphens(tag)) # <<>>
                        THEN tagToInternalStatusMap(StripHyphens(tag))
                        ELSE tag,
           invTags(inv))

statusPriority == <<WithIssue, Cancelled, Delivered, InTransit, PendingConfirmation>>

\* for (const prioritizedStatus of statusPriority) { if (includes) { ...; break } }
RECURSIVE firstByPriority(_, _, _)
firstByPriority(tags, priority, default) ==
    IF priority = <<>> THEN default
    ELSE IF Includes(tags, Head(priority)) THEN Head(priority)
    ELSE firstByPriority(tags, Tail(priority), default)

\* mutant: the loop has no break, the last match wins
RECURSIVE lastByPriority(_, _, _)
lastByPriority(tags, priority, default) ==
    IF priority = <<>> THEN default
    ELSE lastByPriority(tags, Tail(priority),
                        IF Includes(tags, Head(priority)) THEN Head(priority) ELSE default)

statusTag_NoBreak(inv) == lastByPriority(normalizedInvTags(inv), statusPriority, PendingConfirmation)

statusTag(inv) == firstByPriority(normalizedInvTags(inv), statusPriority, PendingConfirmation)

\* the decoding of one invoice dereferences something that is not there
decodeThrows(inv) ==
    \/ inv.notes.shape = "other"
    \/ inv.customFields.shape = "other"
    \/ inv.customFields.shape = "array" /\ findShipmentIdField(inv.customFields.items, 1) = -1
    \/ parseShipmentNotes(inv.notes).title.text = <<>> /\ inv.desc.shape = "other"
    \/ inv.products.shape = "other"
    \/ /\ inv.products.shape = "array"
       /\ \E i \in DOMAIN inv.products.items :
             LET item == inv.products.items[i]
             IN \/ item.shape = "null"
                \/ item.productId = <<>> /\ item.sku = <<>> /\ ~item.name.has

\* mutant: no fallback when the notes give no estimated delivery
estDeliveryDate_NoFallback(inv, notesData, clock) == notesData.estimatedDelivery

\* notesData.estimatedDelivery || (inv.date ? new Date(inv.date * 1000) : new Date())
estDeliveryDate(inv, notesData, clock) ==
    IF notesData.estimatedDelivery.has THEN notesData.estimatedDelivery
    ELSE IF inv.date.present THEN Time(inv.date.ts) ELSE Time(clock)

\* the Shipment the map callback returns for an invoice it can decode
\* the flag as the tags give it: order-confirmed among the normalized tags
isOrderConfirmedFromTag(inv) == Includes(normalizedInvTags(inv), OrderConfirmed)

\* the flag as the notes give it, false when no line of the notes gives one
isOrderConfirmedFromNotes_Ignored(notesData) == FALSE

isOrderConfirmedFromNotes(notesData) == notesData.isOrderConfirmed.v

decode(inv, clock) ==
    LET notesData == parseShipmentNotes(inv.notes)
        cf == IF inv.customFields.shape = "array"
              THEN findShipmentIdField(inv.customFields.items, 1) ELSE 0
        id0 == IF cf > 0 THEN inv.customFields.items[cf].value ELSE notesData.id.text
        descMatch == inv.desc.shape = "string" /\ inv.desc.hasPrefix /\ inv.desc.title # <<>>
        useDesc == notesData.title.text = <<>> /\ descMatch
        title1 == IF useDesc THEN Trim(inv.desc.title) ELSE notesData.title.text
        id1 == IF useDesc /\ id0 = <<>> /\ inv.desc.hasSuffix
               THEN <<"shp_">> \o inv.desc.suffix ELSE id0
    IN [id |-> IF id1 = <<>> THEN <<"inv_">> \o inv.id ELSE id1,
        title |-> IF title1 = <<>> THEN <<"Shipment for Invoice ">> \o inv.id ELSE title1,
        status |-> statusTag(inv),
        products |-> IF inv.products.shape = "array"
                     THEN MapSeq(LAMBDA item :
                                   [productId |->
                                      IF item.productId # <<>> THEN item.productId
                                      ELSE IF item.sku # <<>> THEN item.sku
                                      ELSE <<"unknown_pid_for_">>
                                           \o ReplaceSpacesBy(item.name.text, "_"),
                                    units |-> item.units],
                                 inv.products.items)
                     ELSE <<>>,
        estimatedDelivery |-> estDeliveryDate(inv, notesData, clock),
        actualDelivery |-> notesData.actualDelivery,
        issueDescription |-> notesData.issueDescription,
        origin |-> IF notesData.origin.text = <<>> THEN <<"N/A">> ELSE notesData.origin.text,
        destination |-> IF notesData.destination.text = <<>> THEN <<"N/A">>
                        ELSE notesData.destination.text,
        isOrderConfirmed |-> \/ isOrderConfirmedFromTag(inv)
                             \/ isOrderConfirmedFromNotes(notesData),
        createdAt |-> IF inv.date.present THEN inv.date.ts ELSE clock,
        holdedInvoiceId |-> inv.id,
        tags |-> invTags(inv)]

\* what the listing answers when Holded returned these invoices: every invoice
\* decoded, or 500 from the catch when the decoding of one of them throws
listShipments(invoices, clock) ==
    IF \E i \in DOMAIN invoices : decodeThrows(invoices[i])
    THEN [status |-> "error-500", holdedOk |-> TRUE, shipments |-> <<>>]
    ELSE [status |-> "ok", holdedOk |-> TRUE,
          shipments |-> SelectSeq(MapSeq(LAMBDA inv : decode(inv, clock), invoices),
                                  LAMBDA sh : sh.id # <<>>)]

NoListing == [status |-> "none", holdedOk |-> FALSE, shipments |-> <<>>]

\* the clock at the start: 2025-05-12T12:00Z
StartTime == 2 * 24 + 12

\* GET /api/invoices, Holded answers OK with its invoices
GetInvoicesOk ==
    /\ listing' = listShipments(<<doc>> \o others, now)
    /\ UNCHANGED listingFrame

\* Holded answers non-OK: the listing passes its status on
GetInvoicesNotOk ==
    /\ listing' = [status |-> "holded-error", holdedOk |-> FALSE, shipments |-> <<>>]
    /\ UNCHANGED listingFrame

\* no API key, or the fetch throws: 500
GetInvoicesThrows ==
    /\ listing' = [status |-> "error-500", holdedOk |-> FALSE, shipments |-> <<>>]
    /\ UNCHANGED listingFrame

GetInvoices == GetInvoicesOk \/ GetInvoicesNotOk \/ GetInvoicesThrows

-----------------------------------------------------------------------------
(* The route handler PUT as a process: GET the live invoice, merge, PUT. *)

Callers == {"logistics", "track-team"}

\* UpdateHoldedInvoicePayload: every field is optional
Body(hasTags, tags, hasNotes, notes, hasCustomFields) ==
    [hasTags |-> hasTags, tags |-> tags, hasNotes |-> hasNotes, notes |-> notes,
     hasCustomFields |-> hasCustomFields]

EmptyBody == Body(FALSE, <<>>, FALSE, <<>>, FALSE)

IdleReq == [pc |-> "idle", body |-> EmptyBody, live |-> <<>>, fetchOk |-> FALSE,
            putIssued |-> FALSE, resp |-> "none", payload |-> EmptyBody]

NoLast == [set |-> FALSE, tags |-> <<>>, repeated |-> FALSE]

\* mutant: the merged tags are put in the payload whatever the client sent
payloadForHolded_AlwaysTags(r, existingRawTags, bodyFromClient) ==
    Body(TRUE,
         MergedTags(r, existingRawTags, bodyFromClient.tags),
         bodyFromClient.hasNotes,
         IF bodyFromClient.hasNotes THEN bodyFromClient.notes ELSE <<>>,
         bodyFromClient.hasCustomFields)

\* payloadForHolded: tags only if the client sent tags, notes only if it sent notes
payloadForHolded(r, existingRawTags, bodyFromClient) ==
    Body(bodyFromClient.hasTags,
         IF bodyFromClient.hasTags
         THEN MergedTags(r, existingRawTags, bodyFromClient.tags) ELSE <<>>,
         bodyFromClient.hasNotes,
         IF bodyFromClient.hasNotes THEN bodyFromClient.notes ELSE <<>>,
         bodyFromClient.hasCustomFields)

\* Object.keys(payloadForHolded).length === 0
PayloadEmpty(p) == ~p.hasTags /\ ~p.hasNotes /\ ~p.hasCustomFields

\* the external store applies a PUT: the fields of the payload replace the document's
HoldedPut(d, p) ==
    [d EXCEPT !.tags = IF p.hasTags THEN MapSeq(Str, p.tags) ELSE @,
              !.notes = IF p.hasNotes THEN [shape |-> "string", text |-> p.notes] ELSE @]

\* the request reaches the route
Arrive(c, body) ==
    req' = [req EXCEPT ![c] = [IdleReq EXCEPT !.pc = "sent", !.body = body]]

\* HOLDED_API_KEY is not set: 500 before anything is fetched
RouteConfigError(c) ==
    /\ req[c].pc = "sent"
    /\ req' = [req EXCEPT ![c].pc = "done", ![c].resp = "config-error"]
    /\ UNCHANGED <<doc, lastWrite, routeFrame>>

\* mutant: the baseline of the merge is the tag list of the caller's own copy
RouteFetchOk_FromCache(c) ==
    /\ req[c].pc = "sent"
    /\ req' = [req EXCEPT ![c].pc = "fetched", ![c].fetchOk = TRUE,
                          ![c].live = MapSeq(Str, client[c].update.current.tags)]
    /\ UNCHANGED <<doc, lastWrite, routeFrame>>

\* GET of the current invoice answers OK: its tags are the baseline of the merge
RouteFetchOk(c) ==
    /\ req[c].pc = "sent"
    /\ req' = [req EXCEPT ![c].pc = "fetched", ![c].fetchOk = TRUE, ![c].live = doc.tags]
    /\ UNCHANGED <<doc, lastWrite, routeFrame>>

\* mutant: the non-OK branch does not return, the merge goes on with no tags
RouteFetchNotOk_FallsThrough(c) ==
    /\ req[c].pc = "sent"
    /\ req' = [req EXCEPT ![c].pc = "fetched", ![c].live = <<>>]
    /\ UNCHANGED <<doc, lastWrite, routeFrame>>

\* GET answers non-OK: the route returns Holded's status
RouteFetchNotOk(c) ==
    /\ req[c].pc = "sent"
    /\ req' = [req EXCEPT ![c].pc = "done", ![c].resp = "fetch-failed"]
    /\ UNCHANGED <<doc, lastWrite, routeFrame>>

\* request.json(), the GET or its .json() throws: the catch answers 500
RouteFetchThrows(c) ==
    /\ req[c].pc = "sent"
    /\ req' = [req EXCEPT ![c].pc = "done", ![c].resp = "error-500"]
    /\ UNCHANGED <<doc, lastWrite, routeFrame>>

\* nothing to update: 400, no PUT
RouteNoData(c) ==
    /\ req[c].pc = "fetched"
    /\ PayloadEmpty(payloadForHolded(route, req[c].live, req[c].body))
    /\ req' = [req EXCEPT ![c].pc = "done", ![c].resp = "bad-request"]
    /\ UNCHANGED <<doc, lastWrite, routeFrame>>

RecordLast(c, p) ==
    lastWrite' = IF p.hasTags
            THEN [set |-> TRUE, tags |-> req[c].body.tags,
                  repeated |-> lastWrite.set /\ lastWrite.tags = req[c].body.tags]
            ELSE lastWrite

\* PUT answers OK
RouteWriteOk(c) ==
    /\ req[c].pc = "fetched"
    /\ LET p == payloadForHolded(route, req[c].live, req[c].body)
       IN /\ ~PayloadEmpty(p)
          /\ doc' = HoldedPut(doc, p)
          /\ req' = [req EXCEPT ![c].pc = "done", ![c].resp = "ok",
                                ![c].putIssued = TRUE, ![c].payload = p]
          /\ RecordLast(c, p)
    /\ UNCHANGED routeFrame

\* PUT answers non-OK: the document is not changed
RouteWriteNotOk(c) ==
    /\ req[c].pc = "fetched"
    /\ LET p == payloadForHolded(route, req[c].live, req[c].body)
       IN /\ ~PayloadEmpty(p)
          /\ req' = [req EXCEPT ![c].pc = "done", ![c].resp = "write-failed",
                                ![c].putIssued = TRUE, ![c].payload = p]
    /\ UNCHANGED <<doc, lastWrite, routeFrame>>

\* the PUT throws (network), or its response.json() throws after the store applied it
RouteWriteThrows(c) ==
    /\ req[c].pc = "fetched"
    /\ LET p == payloadForHolded(route, req[c].live, req[c].body)
       IN /\ ~PayloadEmpty(p)
          /\ \E applied \in BOOLEAN :
                /\ doc' = IF applied THEN HoldedPut(doc, p) ELSE doc
                /\ IF applied THEN RecordLast(c, p) ELSE lastWrite' = lastWrite
          /\ req' = [req EXCEPT ![c].pc = "done", ![c].resp = "error-500",
                                ![c].putIssued = TRUE, ![c].payload = p]
    /\ UNCHANGED routeFrame

\* the steps of a request that carries something to update
RouteServe(c) ==
    \/ RouteConfigError(c)
    \/ RouteFetchOk(c)
    \/ RouteFetchNotOk(c)
    \/ RouteFetchThrows(c)
    \/ RouteWriteOk(c)
    \/ RouteWriteNotOk(c)
    \/ RouteWriteThrows(c)

RouteStep(c) == RouteServe(c) \/ RouteNoData(c)

-----------------------------------------------------------------------------
(* The dashboard: ShipmentOverview (the shipment list of one browser, its    *)
(* update handler) and ShipmentCard (the actions a card offers to a role).   *)

\* the time zones of the browsers, in hours from UTC
Zones == {-5, 0, 2}

ProductIds == {<<"p1">>, <<"p2">>}

\* the stock levels a product list starts from
CatalogueStock == [pid \in ProductIds |-> 3]

\* a list slot that holds no shipment
EmptySlot == decode(BaseDoc, 0)

NoUpdate == [idx |-> 0, newStatus |-> <<>>, originalStatus |-> <<>>,
             current |-> EmptySlot, sent |-> EmptySlot]

\* no user: the dashboard loads nothing
LoggedOut == [user |-> FALSE, pc |-> "idle", shipments |-> <<>>,
              stockLevel |-> CatalogueStock, update |-> NoUpdate, toast |-> "none"]

LoggedIn == [LoggedOut EXCEPT !.user = TRUE]

\* toast({title}): the toast on the screen of c is replaced
Toast(c, title) == client' = [client EXCEPT ![c].toast = title]

\* shipments.findIndex(s => s.id === shipmentId), 0 for -1
findIndex(shipments, shipmentId) ==
    IF \E i \in DOMAIN shipments : shipments[i].id = shipmentId
    THEN CHOOSE i \in DOMAIN shipments :
            /\ shipments[i].id = shipmentId
            /\ \A j \in 1..(i - 1) : shipments[j].id # shipmentId
    ELSE 0

ListingNotOk == [status |-> "holded-error", holdedOk |-> FALSE, shipments |-> <<>>]
ListingThrows == [status |-> "error-500", holdedOk |-> FALSE, shipments |-> <<>>]

\* what GET /api/invoices can answer now
ListingAnswers == {listShipments(<<doc>> \o others, now), ListingNotOk, ListingThrows}

\* fetchShipmentsFromApi: the list replaced by the answer, emptied on any failure
fetchShipmentsFromApi(cl, answer, clock) ==
    IF answer.status = "ok"
    THEN [cl EXCEPT !.shipments =
                       MapSeq(LAMBDA s : [s EXCEPT !.estimatedDelivery =
                                                      IF @.has THEN @ ELSE Time(clock)],
                              answer.shipments)]
    ELSE [cl EXCEPT !.shipments = <<>>, !.toast = "Error Loading Shipments"]

\* the dashboard mounts (login, reload): products, then shipments
loadInitialData(c) ==
    /\ client[c].user
    /\ client[c].pc = "idle"
    /\ \E answer \in ListingAnswers :
          /\ client' = [client EXCEPT ![c] =
                           fetchShipmentsFromApi([client[c] EXCEPT !.stockLevel = CatalogueStock,
                                                                    !.toast = "none"],
                                                 answer, now)]
    /\ UNCHANGED <<doc, route, req, orig, lastWrite, others, listing, now, tz, holdedStock,
                   updates>>

\* mutant: the notes of an update carry the Issue line of no description
notesForHolded_NoIssue(sh, isConfirmed, actualDeliveryTimestamp, finalIssueDescription, zone) ==
    <<"Shipment Title", ": ">> \o sh.title
    \o <<"\n", "Origin", ": ">> \o sh.origin
    \o <<"\n", "Destination", ": ">> \o sh.destination
    \o <<"\n", "Est. Delivery", ": ", formatLocalDay(sh.estimatedDelivery.ts, zone)>>
    \o <<"\n", "Internal Shipment ID", ": ">> \o sh.id
    \o <<"\n", "Order Confirmed", ": ", IF isConfirmed THEN "true" ELSE "false">>
    \o (IF actualDeliveryTimestamp.has
        THEN <<"\n", "Actual Delivery", ": ", toISOString(actualDeliveryTimestamp.ts)>>
        ELSE <<>>)

\* the notes of an update: the lines of notesForHoldedParts joined by newlines
notesForHolded(sh, isConfirmed, actualDeliveryTimestamp, finalIssueDescription, zone) ==
    <<"Shipment Title", ": ">> \o sh.title
    \o <<"\n", "Origin", ": ">> \o sh.origin
    \o <<"\n", "Destination", ": ">> \o sh.destination
    \o <<"\n", "Est. Delivery", ": ", formatLocalDay(sh.estimatedDelivery.ts, zone)>>
    \o <<"\n", "Internal Shipment ID", ": ">> \o sh.id
    \o <<"\n", "Order Confirmed", ": ", IF isConfirmed THEN "true" ELSE "false">>
    \o (IF actualDeliveryTimestamp.has
        THEN <<"\n", "Actual Delivery", ": ", toISOString(actualDeliveryTimestamp.ts)>>
        ELSE <<>>)
    \o (IF finalIssueDescription.has /\ finalIssueDescription.text # <<>>
        THEN <<"\n", "Issue", ": ">> \o finalIssueDescription.text
        ELSE <<>>)

\* updatedTagsFromClient?: string[]
NoTags == [has |-> FALSE, tags |-> <<>>]
Tags(tags) == [has |-> TRUE, tags |-> tags]

\* the days the model can format: an update is not taken past them
CanFormat(sh, zone) == (sh.estimatedDelivery.ts + zone) \div 24 \in AllDays

\* the number of updates a behaviour of the model goes up to
MaxUpdates == 3

handleUpdateShipmentStatus(c, shipmentId, newStatus, issueDescription, updatedTagsFromClient) ==
    LET shipments == client[c].shipments
        currentShipmentIndex == findIndex(shipments, shipmentId)
    IN IF \/ currentShipmentIndex = 0
          \/ ~client[c].user
          \/ shipments[currentShipmentIndex].holdedInvoiceId = <<>>
       THEN Toast(c, "Update Error") /\ UNCHANGED <<req, updates>>
       ELSE LET currentShipment == shipments[currentShipmentIndex]
                originalStatus == currentShipment.status
                actualDeliveryTimestamp ==
                    IF newStatus = Delivered /\ originalStatus = InTransit /\ c = "track-team"
                    THEN Time(now) ELSE currentShipment.actualDelivery
                tagged == updatedTagsFromClient.has
                            /\ Includes(updatedTagsFromClient.tags, OrderConfirmed)
                isConfirmed ==
                    IF tagged THEN TRUE
                    ELSE IF \/ newStatus = Cancelled
                            \/ newStatus = PendingConfirmation /\ originalStatus = WithIssue
                         THEN IF updatedTagsFromClient.has THEN FALSE
                              ELSE currentShipment.isOrderConfirmed
                         ELSE currentShipment.isOrderConfirmed
                finalIssueDescription ==
                    IF newStatus = WithIssue THEN issueDescription
                    ELSE IF originalStatus = WithIssue /\ newStatus # Cancelled THEN NoText
                    ELSE currentShipment.issueDescription
                updatedShipmentForLocalState ==
                    [currentShipment EXCEPT
                        !.status = newStatus,
                        !.isOrderConfirmed = isConfirmed,
                        !.issueDescription = finalIssueDescription,
                        !.actualDelivery = actualDeliveryTimestamp,
                        !.tags = IF updatedTagsFromClient.has THEN updatedTagsFromClient.tags
                                 ELSE @]
                payloadForApi ==
                    Body(updatedTagsFromClient.has, updatedTagsFromClient.tags, TRUE,
                         notesForHolded(updatedShipmentForLocalState, isConfirmed,
                                        actualDeliveryTimestamp, finalIssueDescription, tz),
                         FALSE)
            IN /\ CanFormat(currentShipment, tz)
               /\ currentShipment.holdedInvoiceId = doc.id   \* the route serves doc
               /\ updates < MaxUpdates
               /\ updates' = updates + 1
               /\ client' = [client EXCEPT
                               ![c].shipments[currentShipmentIndex] = updatedShipmentForLocalState,
                               ![c].pc = "awaiting",
                               ![c].update = [idx |-> currentShipmentIndex,
                                              newStatus |-> newStatus,
                                              originalStatus |-> originalStatus,
                                              current |-> currentShipment,
                                              sent |-> updatedShipmentForLocalState]]
               /\ Arrive(c, payloadForApi)

\* ShipmentList: the cards a role is shown (tab 'all')
roleFilteredShipments(role, shipments) ==
    IF role = "logistics" THEN shipments
    ELSE SelectSeq(shipments, LAMBDA s : s.status \in {PendingConfirmation, InTransit,
                                                         Delivered, WithIssue})

canConfirmOrder(shipment, role) ==
    role = "track-team" /\ shipment.status = PendingConfirmation /\ ~shipment.isOrderConfirmed

\* canConfirmReceipt without the role: the button on every in-transit card
canConfirmReceipt_AnyRole(shipment, role) == shipment.status = InTransit

canConfirmReceipt(shipment, role) == role = "track-team" /\ shipment.status = InTransit

canReportIssue(shipment, role) ==
    role = "track-team" /\ shipment.status \in {InTransit, PendingConfirmation}

canChangeStatusLogistics(shipment, role) == role = "logistics" /\ shipment.status # Cancelled

\* the entries of the logistics status dropdown
availableStatusesForDropdown(shipment, role) ==
    SelectSeq(defaultShipmentStatuses, LAMBDA status :
        IF shipment.status = Cancelled THEN FALSE
        ELSE IF status = shipment.status THEN FALSE
        ELSE IF role = "logistics"
             THEN IF shipment.status = WithIssue /\ status = PendingConfirmation THEN TRUE
                  ELSE IF /\ shipment.status = PendingConfirmation
                          /\ ~shipment.isOrderConfirmed
                          /\ status = Cancelled THEN TRUE
                  ELSE IF status \in {InTransit, Delivered, WithIssue} THEN FALSE
                  ELSE IF /\ shipment.isOrderConfirmed
                          /\ shipment.status \in {PendingConfirmation, InTransit}
                       THEN status = Cancelled
                  ELSE TRUE
             ELSE FALSE)

handleStatusChange(c, shipment, newStatusId) ==
    IF shipment.status = Cancelled \/ (newStatusId = WithIssue /\ c = "logistics")
    THEN Toast(c, "Action Invalid") /\ UNCHANGED <<req, updates>>
    ELSE LET tagsForUpdate ==
                 <<newStatusId>>
                 \o (IF /\ newStatusId = PendingConfirmation
                        /\ shipment.status = WithIssue
                        /\ shipment.isOrderConfirmed
                     THEN <<OrderConfirmed>> ELSE <<>>)
         IN IF newStatusId = WithIssue /\ c = "track-team"
            THEN UNCHANGED <<client, req, updates>>      \* the issue dialog opens
            ELSE handleUpdateShipmentStatus(c, shipment.id, newStatusId, NoText,
                                            Tags(tagsForUpdate))

handleConfirmOrder(c, shipment) ==
    IF shipment.status = PendingConfirmation /\ ~shipment.isOrderConfirmed
    THEN handleUpdateShipmentStatus(c, shipment.id, InTransit, NoText,
                                    Tags(<<InTransit, OrderConfirmed>>))
    ELSE UNCHANGED <<client, req, updates>>

handleConfirmReceipt(c, shipment) ==
    IF shipment.status = InTransit
    THEN handleUpdateShipmentStatus(c, shipment.id, Delivered, NoText,
                                    Tags(<<Delivered, OrderConfirmed>>))
    ELSE UNCHANGED <<client, req, updates>>

\* handleReportIssueConfirm marking the card with-issue before it rejects a blank text
handleReportIssueConfirm_MarksFirst(c, shipment, issueText) ==
    IF Trim(issueText) = <<>>
    THEN /\ client' = [client EXCEPT
                         ![c].shipments[findIndex(client[c].shipments, shipment.id)].status =
                             WithIssue,
                         ![c].toast = "Error"]
         /\ UNCHANGED <<req, updates>>
    ELSE IF shipment.status \in {InTransit, PendingConfirmation}
    THEN handleUpdateShipmentStatus(c, shipment.id, WithIssue, Text(issueText),
                                    Tags(<<WithIssue>> \o (IF shipment.isOrderConfirmed
                                                           THEN <<OrderConfirmed>> ELSE <<>>)))
    ELSE Toast(c, "Action Invalid") /\ UNCHANGED <<req, updates>>

\* handleReportIssueConfirm sending with-issue alone, whatever the flag
handleReportIssueConfirm_NoFlag(c, shipment, issueText) ==
    IF Trim(issueText) = <<>>
    THEN Toast(c, "Error") /\ UNCHANGED <<req, updates>>
    ELSE IF shipment.status \in {InTransit, PendingConfirmation}
    THEN handleUpdateShipmentStatus(c, shipment.id, WithIssue, Text(issueText),
                                    Tags(<<WithIssue>>))
    ELSE Toast(c, "Action Invalid") /\ UNCHANGED <<req, updates>>

handleReportIssueConfirm(c, shipment, issueText) ==
    IF Trim(issueText) = <<>>
    THEN Toast(c, "Error") /\ UNCHANGED <<req, updates>>      \* Please describe the issue
    ELSE IF shipment.status \in {InTransit, PendingConfirmation}
    THEN handleUpdateShipmentStatus(c, shipment.id, WithIssue, Text(issueText),
                                    Tags(<<WithIssue>> \o (IF shipment.isOrderConfirmed
                                                           THEN <<OrderConfirmed>> ELSE <<>>)))
    ELSE Toast(c, "Action Invalid") /\ UNCHANGED <<req, updates>>

\* the cards in front of the user c, who has no update in flight
Cards(c) ==
    IF client[c].user /\ client[c].pc = "idle"
    THEN SetOf(roleFilteredShipments(c, client[c].shipments))
    ELSE {}

cardFrame == <<doc, route, orig, lastWrite, others, listing, now, tz, holdedStock>>

\* logistics picks an entry of the status dropdown
SelectStatus(c) ==
    /\ \E shipment \in Cards(c) :
          /\ canChangeStatusLogistics(shipment, c)
          /\ \E newStatusId \in SetOf(availableStatusesForDropdown(shipment, c)) :
                handleStatusChange(c, shipment, newStatusId)
    /\ UNCHANGED cardFrame

\* track-team presses Confirm Order
ConfirmOrder(c) ==
    /\ \E shipment \in Cards(c) :
          /\ canConfirmOrder(shipment, c)
          /\ handleConfirmOrder(c, shipment)
    /\ UNCHANGED cardFrame

\* track-team presses Confirm Receipt
ConfirmReceipt(c) ==
    /\ \E shipment \in Cards(c) :
          /\ canConfirmReceipt(shipment, c)
          /\ handleConfirmReceipt(c, shipment)
    /\ UNCHANGED cardFrame

\* the texts typed into the issue dialog, a Textarea: of one line or of more
IssueTexts == {<<>>, <<" ">>, <<"x", " ", "y">>, <<"x", "\n", "Origin", ": ", "z">>}

\* track-team opens the issue dialog, types a text and presses Report Issue
ReportIssue(c) ==
    /\ \E shipment \in Cards(c) :
          /\ canReportIssue(shipment, c)
          /\ \E issueText \in IssueTexts : handleReportIssueConfirm(c, shipment, issueText)
    /\ UNCHANGED cardFrame

\* the stock of the store can be counted up to here
MaxStock == 7

RECURSIVE SumSeq(_)
SumSeq(list) == IF list = <<>> THEN 0 ELSE Head(list) + SumSeq(Tail(list))

\* the update answered OK: the stock of a cancelled, unconfirmed shipment is
\* restored product by product (each PUT of updateStockInHoldedAPI succeeds or
\* not), then the list is fetched again
UpdateOk(c) ==
    /\ client[c].pc = "awaiting"
    /\ req[c].pc = "done"
    /\ req[c].resp = "ok"
    /\ LET u == client[c].update
           currentShipment == u.current
           restores == /\ u.newStatus = Cancelled
                       /\ u.originalStatus = PendingConfirmation
                       /\ ~currentShipment.isOrderConfirmed
                       /\ c = "logistics"
           items == currentShipment.products
       IN \E success \in [DOMAIN items -> BOOLEAN], answer \in ListingAnswers :
             LET allStockRestoredInHolded == \A i \in DOMAIN items : success[i]
                 restored(pid) ==
                     SelectSeq([i \in DOMAIN items |->
                                   IF items[i].productId = pid /\ success[i]
                                   THEN items[i].units ELSE 0],
                               LAMBDA n : n > 0)
                 cancelledItem(pid) ==
                     SelectSeq(items, LAMBDA si : si.productId = pid)
                 afterStock ==
                     IF restores /\ allStockRestoredInHolded
                     THEN [client[c] EXCEPT
                             !.toast = "Stock Restored",
                             !.stockLevel = [pid \in ProductIds |->
                                               IF cancelledItem(pid) # <<>>
                                               THEN @[pid] + cancelledItem(pid)[1].units
                                               ELSE @[pid]]]
                     ELSE [client[c] EXCEPT
                             !.toast = IF restores THEN "Partial Stock Restore"
                                       ELSE "Shipment Updated"]
             IN /\ holdedStock' =
                      IF restores
                      THEN [pid \in ProductIds |-> holdedStock[pid] + SumSeq(restored(pid))]
                      ELSE holdedStock
                /\ \A pid \in ProductIds : holdedStock'[pid] <= MaxStock
                /\ client' = [client EXCEPT ![c] =
                                 [fetchShipmentsFromApi(afterStock, answer, now)
                                    EXCEPT !.pc = "idle", !.update = NoUpdate]]
    /\ req' = [req EXCEPT ![c] = IdleReq]
    /\ UNCHANGED <<doc, route, orig, lastWrite, others, listing, now, tz, updates>>

\* the catch without its setShipments: the optimistic entry stays
Reverted_KeepsOptimistic(cl) ==
    [cl EXCEPT !.pc = "idle", !.update = NoUpdate, !.toast = "Sync Error"]

\* the list with the slot of the update put back to the shipment as it was
Reverted(cl) ==
    [cl EXCEPT !.shipments = IF cl.update.idx \in DOMAIN @
                             THEN [@ EXCEPT ![cl.update.idx] = cl.update.current] ELSE @,
               !.pc = "idle",
               !.update = NoUpdate,
               !.toast = "Sync Error"]

\* the update answered an error status: toast Sync Error, the slot is reverted
UpdateNotOk(c) ==
    /\ client[c].pc = "awaiting"
    /\ req[c].pc = "done"
    /\ req[c].resp # "ok"
    /\ client' = [client EXCEPT ![c] = Reverted(client[c])]
    /\ req' = [req EXCEPT ![c] = IdleReq]
    /\ UNCHANGED <<cardFrame, updates>>

\* the fetch of the update throws in the browser (the request or its answer is
\* lost on the network): the same catch
UpdateThrows(c) ==
    /\ client[c].pc = "awaiting"
    /\ req[c].pc \in {"sent", "done"}
    /\ client' = [client EXCEPT ![c] = Reverted(client[c])]
    /\ req' = [req EXCEPT ![c] = IdleReq]
    /\ UNCHANGED <<cardFrame, updates>>

\* the clock advances by twelve hours
MaxTicks == 1

Tick ==
    /\ now < StartTime + 12 * MaxTicks
    /\ now' = now + 12
    /\ UNCHANGED <<doc, route, req, orig, lastWrite, others, listing, client, tz, holdedStock,
                   updates>>

ClientStep(c) ==
    \/ loadInitialData(c)
    \/ SelectStatus(c)
    \/ ConfirmOrder(c)
    \/ ConfirmReceipt(c)
    \/ ReportIssue(c)
    \/ UpdateOk(c)
    \/ UpdateNotOk(c)
    \/ UpdateThrows(c)



-----------------------------------------------------------------------------
(* SpecRoute: the route called directly, by one writer, on a document that   *)
(* carries any tags (written by this app, by the store, or by other tools).  *)

MaxLiveTags == 2

SingleWriter == "logistics"

TagPool ==
    { Str(<<"sensor">>), Str(<<"Sensor">>), Obj(<<"gp", " ", "montmelo">>),
      Str(OrderConfirmed), Obj(<<"with", "issue">>), Str(<<" ", "delivered">>), Other }

SomeNotes == <<"Origin", ": ", "x">>

BodyPool ==
    { EmptyBody,
      Body(FALSE, <<>>, TRUE, SomeNotes, FALSE),
      Body(TRUE, <<>>, FALSE, <<>>, FALSE),
      Body(TRUE, <<InTransit, OrderConfirmed>>, TRUE, SomeNotes, FALSE),
      Body(TRUE, <<WithIssue>>, TRUE, SomeNotes, FALSE),
      Body(TRUE, <<PendingConfirmation>>, FALSE, <<>>, FALSE),
      Body(TRUE, <<<<"With", " ", "issue">>, <<"sensor">>>>, FALSE, <<>>, TRUE) }

InitRoute ==
    /\ \E tags \in ListsUpTo(TagPool, MaxLiveTags) :
          /\ doc = [BaseDoc EXCEPT !.tags = tags]
          /\ orig = tags
    /\ route \in Routes
    /\ req = [c \in Callers |-> IdleReq]
    /\ lastWrite = NoLast
    /\ others = <<>>
    /\ listing = NoListing
    /\ now = StartTime
    /\ client = [c \in Callers |-> LoggedOut]
    /\ tz = 0
    /\ holdedStock = CatalogueStock
    /\ updates = 0

\* any HTTP client sends PUT /api/invoices/:id/update
DirectRequest(c) ==
    /\ req[c].pc = "idle"
    /\ \E body \in BodyPool : Arrive(c, body)
    /\ UNCHANGED <<doc, lastWrite, routeFrame>>

\* the caller has read the response
DirectComplete(c) ==
    /\ req[c].pc = "done"
    /\ req' = [req EXCEPT ![c] = IdleReq]
    /\ UNCHANGED <<doc, lastWrite, routeFrame>>

NextRoute ==
    \/ DirectRequest(SingleWriter)
    \/ RouteStep(SingleWriter)
    \/ DirectComplete(SingleWriter)

SpecRoute == InitRoute /\ [][NextRoute]_vars


-----------------------------------------------------------------------------
(* Claims about the merge (SpecRoute) *)

\* the letters of a tag: lowercased, hyphens and whitespace left out
Letters(name) == SelectSeq(ToLowerCase(name), LAMBDA t : t \notin {"-", " ", "\n"})

RecognizedLetters ==
    { <<"pending", "confirmation">>, <<"in", "transit">>, <<"delivered">>,
      <<"with", "issue">>, <<"cancelled">>, <<"order", "confirmed">> }

RecognizedHyphenated ==
    { <<"pending", "-", "confirmation">>, <<"in", "-", "transit">>, <<"delivered">>,
      <<"with", "-", "issue">>, <<"cancelled">>, <<"order", "-", "confirmed">> }

\* a tag entry with a name that spells none of the six recognized names
IsForeignEntry(e) ==
    /\ e.shape \in {"string", "object"}
    /\ e.name # <<>>
    /\ Letters(e.name) \notin RecognizedLetters

\* the request of c ended with a tag list written to the store
TagsWritten(c) ==
    /\ req[c].pc = "done"
    /\ req[c].resp = "ok"
    /\ req[c].payload.hasTags

DocTagNames == {doc.tags[i].name : i \in DOMAIN doc.tags}

LiveInKnownForms(live) ==
    \A i \in DOMAIN live :
        \/ live[i].shape = "other"
        \/ IsForeignEntry(live[i])
        \/ live[i].name \in RecognizedHyphenated \cup RecognizedLetters

\* C2 as stated: after a merge the recognized tags in the written list are
\* exactly the desired ones, whether the live ones were stored hyphenated or
\* hyphen-stripped
C2_NoStaleRecognized ==
    \A c \in Callers : (TagsWritten(c) /\ LiveInKnownForms(req[c].live)) =>
        {Letters(t) : t \in SetOf(req[c].payload.tags)} \cap RecognizedLetters
            = {Letters(t) : t \in SetOf(req[c].body.tags)} \cap RecognizedLetters

\* C2 holds of copy A of the route
C2_NoStaleRecognized_A == route = "A" => C2_NoStaleRecognized

\* C8: a tag write that repeats the body tags of the tag write before it
\* leaves the document's tag set as it was
C8_MergeIdempotent ==
    [][ \A c \in Callers :
          ( /\ req[c].pc = "fetched"
            /\ req'[c].pc = "done"
            /\ req'[c].resp = "ok"
            /\ req[c].body.hasTags
            /\ lastWrite.set
            /\ lastWrite.tags = req[c].body.tags )
          => SetOf(doc'.tags) = SetOf(doc.tags) ]_vars

\* a repeated identical tag write went through on a document that started with
\* a stale recognized tag and a foreign one
C8_Witness ==
    /\ TagsWritten(SingleWriter)
    /\ lastWrite.repeated
    /\ req[SingleWriter].body.tags # <<>>
    /\ \E i \in DOMAIN orig : IsForeignEntry(orig[i])
    /\ \E i \in DOMAIN orig : orig[i].name \in RecognizedLetters

\* C3: a request that issued the PUT had fetched the live invoice, and a
\* request whose fetch failed ended with an error and no PUT
C3_NoWriteWithoutFetch ==
    \A c \in Callers :
        /\ req[c].putIssued => req[c].fetchOk
        /\ (req[c].pc = "done" /\ ~req[c].fetchOk) =>
              /\ req[c].resp \in {"fetch-failed", "error-500", "config-error"}
              /\ ~req[c].putIssued

\* the fetch failed and the route has answered
C3_Witness ==
    \E c \in Callers :
        /\ req[c].pc = "done"
        /\ req[c].resp = "fetch-failed"
        /\ ~req[c].putIssued
        /\ req[c].body.hasTags


-----------------------------------------------------------------------------
(* SpecDecode: the listing of one invoice that carries any subset of the     *)
(* status tags, in any of their stored forms, and any notes.                 *)

TagForms == {"absent", "hyphenated", "object"}

\* the entry that stores the tag id in a form
InForm(id, form) ==
    CASE form = "hyphenated" -> <<Str(id)>>
      [] form = "object" -> <<Obj(StripHyphens(id))>>
      [] OTHER -> <<>>

RECURSIVE Reverse(_)
Reverse(list) == IF list = <<>> THEN <<>> ELSE Reverse(Tail(list)) \o <<Head(list)>>

\* the five status tags, each in the form forms gives it, in the order of the table
StatusEntries(forms) ==
    InForm(PendingConfirmation, forms[1]) \o InForm(InTransit, forms[2])
    \o InForm(Delivered, forms[3]) \o InForm(WithIssue, forms[4])
    \o InForm(Cancelled, forms[5])

ExtraEntries ==
    { <<>>, <<Str(<<"sensor">>), Other, Str(<<>>)>>, <<Obj(<<"order", "confirmed">>)>>,
      <<Str(<<"Delivered">>)>>, <<Str(<<"with", "issue">>)>>, <<Str(OrderConfirmed)>> }

DecodeNotesPool ==
    { NoNotes,
      NotesOf(<<>>),
      NotesOf(<<"Shipment Title", ": ", "x", "\n", "Origin", ": ", "y">>),
      NotesOf(<<"Est. Delivery", ": ", DayStr(1), "\n", "Order Confirmed", ": ", "false">>),
      NotesOf(<<"Est. Delivery", ": ", "N/A", "\n", "Order Confirmed", ": ", "TRUE">>),
      NotesOf(<<"Est. Delivery", ": ", "2025-13-45">>),
      NotesOf(<<"Order Confirmed", ": ", "true", "\n", "Issue", ": ", "x">>),
      NotesOf(<<"Est. Delivery", ": ", toISOString(36), "\n", "Est. Delivery", ": ", "x">>) }

InitDecode ==
    /\ \E forms \in [1..5 -> TagForms], extra \in ExtraEntries, reversed \in BOOLEAN,
          notes \in DecodeNotesPool, hasDate \in BOOLEAN :
          LET entries == StatusEntries(forms) \o extra
          IN /\ doc = [BaseDoc EXCEPT !.tags = IF reversed THEN Reverse(entries) ELSE entries,
                                      !.notes = notes,
                                      !.date = [present |-> hasDate, ts |-> IF hasDate THEN 24 ELSE 0]]
             /\ orig = doc.tags
    /\ route = "A"
    /\ req = [c \in Callers |-> IdleReq]
    /\ lastWrite = NoLast
    /\ others = <<>>
    /\ listing = NoListing
    /\ now = StartTime
    /\ client = [c \in Callers |-> LoggedOut]
    /\ tz = 0
    /\ holdedStock = CatalogueStock
    /\ updates = 0

NextDecode == GetInvoices

SpecDecode == InitDecode /\ [][NextDecode]_vars

-----------------------------------------------------------------------------
(* Claims about the decoder of one invoice (SpecDecode) *)

\* the document carries the status: some tag entry spells it, in any case,
\* with or without hyphens
Carries(d, status) ==
    \E i \in DOMAIN d.tags :
        /\ d.tags[i].shape \in {"string", "object"}
        /\ Letters(d.tags[i].name) = Letters(status)

C4_Priority == <<WithIssue, Cancelled, Delivered, InTransit, PendingConfirmation>>

\* the listing answered with the decoded invoice
Decoded == listing.status = "ok" /\ Len(listing.shipments) = 1

\* C4: the decoded status is the first status, in the order with-issue,
\* cancelled, delivered, in-transit, pending-confirmation, that the document
\* carries
C4_PriorityTieBreak ==
    Decoded =>
        \A k \in DOMAIN C4_Priority :
            ( /\ Carries(doc, C4_Priority[k])
              /\ \A j \in 1..(k - 1) : ~Carries(doc, C4_Priority[j]) )
            => listing.shipments[1].status = C4_Priority[k]

\* in-transit is listed before with-issue, in different forms, and the record
\* says with-issue
C4_Witness ==
    /\ Decoded
    /\ Len(doc.tags) = 2
    /\ doc.tags[1] = Str(InTransit)
    /\ doc.tags[2] = Obj(<<"with", "issue">>)
    /\ listing.shipments[1].status = WithIssue

\* C6: an invoice that carries no status tag decodes to pending-confirmation,
\* the decoded estimatedDelivery is never absent, and the invoice without tags
\* and with empty notes decodes with ConfirmationFlag false
C6_DefaultsOnMissingData ==
    Decoded =>
        LET sh == listing.shipments[1]
        IN /\ (\A st \in ShipmentStatus : ~Carries(doc, st)) => sh.status = PendingConfirmation
           /\ sh.estimatedDelivery.has
           /\ sh.estimatedDelivery.ts \in AllTimes
           /\ (doc.tags = <<>> /\ doc.notes.text = <<>>) =>
                 /\ sh.status = PendingConfirmation
                 /\ ~sh.isOrderConfirmed

\* no tags, empty notes and no date on the invoice: the record is pending,
\* unconfirmed, and its estimated delivery is the time of the listing
C6_Witness ==
    /\ Decoded
    /\ doc.tags = <<>>
    /\ doc.notes = NotesOf(<<>>)
    /\ ~doc.date.present
    /\ listing.shipments[1].estimatedDelivery = Time(now)


-----------------------------------------------------------------------------
(* SpecListing: the listing of a store whose invoices are well or ill formed *)

MaxOthers == 1

CustomField(field, value) == [shape |-> "object", field |-> field, value |-> value]
NullCustomField == [shape |-> "null", field |-> "", value |-> <<>>]
CustomFields(items) == [shape |-> "array", items |-> items]

ProductLine(productId, sku, name, units) ==
    [shape |-> "object", productId |-> productId, sku |-> sku, name |-> name, units |-> units]
NullProductLine == [shape |-> "null", productId |-> <<>>, sku |-> <<>>, name |-> NoText, units |-> 0]
Products(items) == [shape |-> "array", items |-> items]

GoodNotes ==
    NotesOf(<<"Shipment Title", ": ", "x", "\n", "Internal Shipment ID", ": ", "shp_1">>)

ListingDocPool ==
    { [BaseDoc EXCEPT !.tags = <<Str(InTransit)>>, !.notes = GoodNotes,
                      !.products = Products(<<ProductLine(<<"p1">>, <<>>, Text(<<"x">>), 2)>>)],
      [BaseDoc EXCEPT !.tags = <<Other, Obj(<<"sensor">>)>>],
      [BaseDoc EXCEPT !.notes = [shape |-> "other", text |-> <<>>]],
      [BaseDoc EXCEPT !.customFields = CustomFields(<<CustomField("other", <<"y">>),
                                                      CustomField("shipment_id", <<"shp_2">>),
                                                      NullCustomField>>)],
      [BaseDoc EXCEPT !.customFields = CustomFields(<<NullCustomField>>)],
      [BaseDoc EXCEPT !.customFields = [shape |-> "other", items |-> <<>>]],
      [BaseDoc EXCEPT !.desc = [shape |-> "string", hasPrefix |-> TRUE, title |-> <<"x", " ">>,
                                hasSuffix |-> TRUE, suffix |-> <<"1">>]],
      [BaseDoc EXCEPT !.desc = [NoDesc EXCEPT !.shape = "other"]],
      [BaseDoc EXCEPT !.notes = GoodNotes, !.desc = [NoDesc EXCEPT !.shape = "other"]],
      [BaseDoc EXCEPT !.products = Products(<<ProductLine(<<>>, <<>>, Text(<<"x", " ", "y">>), 1),
                                              ProductLine(<<>>, <<"sku1">>, NoText, 1)>>)],
      [BaseDoc EXCEPT !.products = Products(<<ProductLine(<<>>, <<>>, NoText, 1)>>)],
      [BaseDoc EXCEPT !.products = Products(<<NullProductLine>>)],
      [BaseDoc EXCEPT !.products = [shape |-> "other", items |-> <<>>]] }

InitListing ==
    /\ doc \in ListingDocPool
    /\ others \in ListsUpTo(ListingDocPool, MaxOthers)
    /\ orig = doc.tags
    /\ route = "A"
    /\ req = [c \in Callers |-> IdleReq]
    /\ lastWrite = NoLast
    /\ listing = NoListing
    /\ now = StartTime
    /\ client = [c \in Callers |-> LoggedOut]
    /\ tz = 0
    /\ holdedStock = CatalogueStock
    /\ updates = 0

NextListing == GetInvoices

SpecListing == InitListing /\ [][NextListing]_vars

\* the invoice gives no shipment id: none in the notes, in the custom fields
\* or in the description
NoShipmentIdOn(inv) ==
    /\ inv.notes.shape # "string"
    /\ inv.customFields.shape # "array"
    /\ inv.desc.shape # "string"

\* C5 as stated: whatever the shapes in the invoices Holded returned, the
\* listing answers without an error, with one record per invoice, and with
\* the id inv_<invoice id> for an invoice that gives no shipment id
C5_DecoderNeverFails ==
    listing.holdedOk =>
        LET invoices == <<doc>> \o others
        IN /\ listing.status = "ok"
           /\ Len(listing.shipments) = Len(invoices)
           /\ \A i \in DOMAIN listing.shipments :
                 NoShipmentIdOn(invoices[i]) =>
                     listing.shipments[i].id = <<"inv_">> \o invoices[i].id

\* the same, for stores in which every notes field is a string or absent, the
\* custom fields and product lines are arrays of objects, every product line
\* has a productId, a sku or a name, and the description is a string or absent
WellShaped(inv) ==
    /\ inv.notes.shape # "other"
    /\ inv.customFields.shape # "other"
    /\ \A i \in DOMAIN inv.customFields.items : inv.customFields.items[i].shape # "null"
    /\ inv.desc.shape # "other"
    /\ inv.products.shape # "other"
    /\ \A i \in DOMAIN inv.products.items :
          /\ inv.products.items[i].shape # "null"
          /\ \/ inv.products.items[i].productId # <<>>
             \/ inv.products.items[i].sku # <<>>
             \/ inv.products.items[i].name.has

C5_DecoderNeverFails_WellShaped ==
    (\A i \in DOMAIN (<<doc>> \o others) : WellShaped((<<doc>> \o others)[i]))
        => C5_DecoderNeverFails


-----------------------------------------------------------------------------
(* Spec: a shipment created by the app, the two roles at their dashboards.   *)
(* SpecSingle: the same with one of the two logged in, the single writer.    *)

\* the notes handleAddShipment writes for a new shipment
notesForNewShipment(title, origin, destination, estDay, id) ==
    <<"Shipment Title", ": ">> \o title
    \o <<"\n", "Origin", ": ">> \o origin
    \o <<"\n", "Destination", ": ">> \o destination
    \o <<"\n", "Est. Delivery", ": ", DayStr(estDay)>>
    \o <<"\n", "Internal Shipment ID", ": ">> \o id
    \o <<"\n", "Order Confirmed", ": ", "false">>

\* the invoice of a shipment created on 2025-05-11, due on 2025-05-13
CreatedDoc ==
    [BaseDoc EXCEPT
        !.tags = <<Str(PendingConfirmation)>>,
        !.notes = NotesOf(notesForNewShipment(<<"x">>, <<"a">>, <<"b">>, 3, <<"shp_1">>)),
        !.date = [present |-> TRUE, ts |-> 24 + 12],
        !.desc = [shape |-> "string", hasPrefix |-> TRUE, title |-> <<"x", " ">>,
                  hasSuffix |-> TRUE, suffix |-> <<"1">>],
        !.products = Products(<<ProductLine(<<"p1">>, <<>>, Text(<<"x">>), 2)>>)]

\* the tags the store may hold for it: as sent or hyphen-stripped, and
\* possibly a tag of another tool
CreatedTags ==
    { <<Str(PendingConfirmation)>>,
      <<Obj(StripHyphens(PendingConfirmation))>>,
      <<Obj(StripHyphens(PendingConfirmation)), Obj(<<"sensor">>)>> }

InitDashboard(users, tagLists, zones) ==
    /\ \E tags \in tagLists :
          /\ doc = [CreatedDoc EXCEPT !.tags = tags]
          /\ orig = tags
    /\ route \in Routes
    /\ req = [c \in Callers |-> IdleReq]
    /\ lastWrite = NoLast
    /\ others = <<>>
    /\ listing = NoListing
    /\ now = StartTime
    /\ client = [c \in Callers |-> IF c \in users THEN LoggedIn ELSE LoggedOut]
    /\ tz \in zones
    /\ holdedStock = CatalogueStock
    /\ updates = 0

\* both roles logged in, browsers on UTC, the tags as the app sent them
Init == InitDashboard(Callers, {<<Str(PendingConfirmation)>>}, {0})

\* one role logged in, in any zone, on any of the tag lists
InitSingle == \E c \in Callers : InitDashboard({c}, CreatedTags, Zones)

Next ==
    \/ \E c \in Callers : ClientStep(c)
    \/ \E c \in Callers : RouteServe(c)
    \/ Tick

Spec == Init /\ [][Next]_vars

SpecSingle == InitSingle /\ [][Next]_vars

\* the dashboards of Spec followed one update less far: the count starts at one
InitShort ==
    /\ doc = [CreatedDoc EXCEPT !.tags = <<Str(PendingConfirmation)>>]
    /\ orig = doc.tags
    /\ route \in Routes
    /\ req = [c \in Callers |-> IdleReq]
    /\ lastWrite = NoLast
    /\ others = <<>>
    /\ listing = NoListing
    /\ now = StartTime
    /\ client = [c \in Callers |-> LoggedIn]
    /\ tz = 0
    /\ holdedStock = CatalogueStock
    /\ updates = 1

SpecShort == InitShort /\ [][Next]_vars

-----------------------------------------------------------------------------
(* SpecCreate: logistics at its dashboard, creating and cancelling shipments *)

\* the products of the form: at least one line, no product twice, whole units
\* of at least 1 (createShipmentSchema)
Item(productId, units) == [productId |-> productId, units |-> units]

ItemLists ==
    { <<Item(<<"p1">>, 4)>>, <<Item(<<"p2">>, 3)>>,
      <<Item(<<"p1">>, 1), Item(<<"p2">>, 2)>> }

\* NewShipmentData: delivery due at the local midnight of 2025-05-13
NewShipments ==
    { [title |-> <<"x">>, origin |-> <<"a">>, destination |-> <<"b">>,
       estimatedDelivery |-> 3 * 24 - tz, products |-> products] : products \in ItemLists }

\* what Holded does with the POST of the route, or the key that is not set
HoldedCreateOutcomes == {"no-key", "created", "not-json", "not-ok", "incomplete", "throws"}

\* whether the invoice can exist in the store after that outcome
Stores(outcome) ==
    CASE outcome = "created" -> {TRUE}
      [] outcome \in {"not-json", "incomplete", "throws"} -> BOOLEAN
      [] OTHER -> {FALSE}

\* mutant: the route answers 201 whatever Holded did
PostInvoices_AlwaysCreated(body, outcome) == "201"

\* POST /api/invoices: the status it answers
PostInvoices(body, outcome) ==
    IF outcome = "no-key" THEN "500"
    ELSE IF body.items = <<>> THEN "400"
    ELSE IF \E i \in DOMAIN body.items : body.items[i].units <= 0 THEN "400"
    ELSE CASE outcome = "throws" -> "500"
           [] outcome = "not-json" -> "502"
           [] outcome = "not-ok" -> "holded-status"
           [] outcome = "incomplete" -> "502"
           [] OTHER -> "201"

\* the invoice Holded keeps for the payload of the k-th document
CreatedInvoice(k, payload) ==
    [id |-> <<"inv" \o ToString(k)>>,
     tags |-> MapSeq(Str, payload.tags),
     notes |-> NotesOf(payload.notes),
     date |-> [present |-> TRUE, ts |-> payload.date],
     desc |-> [shape |-> "string", hasPrefix |-> TRUE, title |-> payload.title \o <<" ">>,
               hasSuffix |-> TRUE, suffix |-> payload.suffix],
     customFields |-> CustomFields(<<>>),
     products |-> Products(MapSeq(LAMBDA item : ProductLine(item.productId, <<>>,
                                                            Text(<<"x">>), item.units),
                                  payload.items))]

\* stockLevel after the map of handleAddShipment: the first line of a product counts
AfterShipping(stockLevel, items) ==
    [pid \in ProductIds |->
        LET shippedItem == SelectSeq(items, LAMBDA si : si.productId = pid)
        IN IF shippedItem # <<>> THEN stockLevel[pid] - shippedItem[1].units
           ELSE stockLevel[pid]]

\* mutant: the stock check lets every form through
InsufficientLocalStock_Never(stockLevel, items) == FALSE

\* some line asks for more than the local stock of its product
InsufficientLocalStock(stockLevel, items) ==
    \E i \in DOMAIN items : stockLevel[items[i].productId] < items[i].units

\* logistics submits the form Add New Shipment
handleAddShipment(c, newShipmentData) ==
    IF InsufficientLocalStock(client[c].stockLevel, newShipmentData.products)
    THEN /\ Toast(c, "Insufficient Local Stock")
         /\ UNCHANGED <<doc, orig, others>>
    ELSE LET k == Len(others) + 2
             tempShipmentIdSuffix == <<ToString(k)>>
             tempShipmentId == <<"shp_" \o ToString(k)>>
             invoicePayload ==
                 [items |-> newShipmentData.products,
                  title |-> newShipmentData.title,
                  suffix |-> tempShipmentIdSuffix,
                  date |-> now,
                  tags |-> <<PendingConfirmation>>,
                  notes |-> notesForNewShipment(newShipmentData.title,
                                                newShipmentData.origin,
                                                newShipmentData.destination,
                                                (newShipmentData.estimatedDelivery + tz) \div 24,
                                                tempShipmentId)]
         IN \E outcome \in HoldedCreateOutcomes,
               network \in {"answered", "unparseable", "throws"} :
               \E stored \in Stores(outcome) \cup (IF network = "throws" THEN {FALSE} ELSE {}) :
                  LET status == PostInvoices(invoicePayload, outcome)
                      docs == IF stored
                              THEN <<CreatedInvoice(k, invoicePayload), doc>> \o others
                              ELSE <<doc>> \o others
                  IN /\ doc' = Head(docs)
                     /\ others' = Tail(docs)
                     /\ orig' = doc'.tags
                     /\ IF network = "throws"
                        THEN Toast(c, "Creation Process Error")
                        ELSE IF network = "unparseable"
                        THEN Toast(c, "Invoice Creation Error")
                        ELSE IF status # "201"
                        THEN Toast(c, "Invoice Creation Failed")
                        ELSE \E answer \in {listShipments(docs, now), ListingNotOk,
                                            ListingThrows} :
                                client' = [client EXCEPT ![c] =
                                    fetchShipmentsFromApi(
                                        [client[c] EXCEPT
                                            !.stockLevel =
                                                AfterShipping(@, newShipmentData.products),
                                            !.toast = "Shipment & Invoice Created"],
                                        answer, now)]

\* the button Add New Shipment is there for logistics
AddShipment(c) ==
    /\ c = "logistics"
    /\ client[c].user
    /\ client[c].pc = "idle"
    /\ Len(others) < MaxOthers
    /\ \E newShipmentData \in NewShipments : handleAddShipment(c, newShipmentData)
    /\ UNCHANGED <<route, req, lastWrite, listing, now, tz, holdedStock, updates>>

\* logistics alone at its dashboard, with the shipment of Spec already there
InitCreate == InitDashboard({"logistics"}, {<<Str(PendingConfirmation)>>}, {0})

\* the steps of logistics: the clock stands still
NextCreate ==
    \/ loadInitialData("logistics")
    \/ AddShipment("logistics")
    \/ SelectStatus("logistics")
    \/ UpdateOk("logistics")
    \/ UpdateNotOk("logistics")
    \/ UpdateThrows("logistics")
    \/ RouteServe("logistics")

SpecCreate == InitCreate /\ [][NextCreate]_vars

\* an update request leaves the dashboard of c in this step
Requests(c) == req[c].pc = "idle" /\ req'[c].pc = "sent"

SameOnRoundTripFields(a, b) ==
    /\ a.id = b.id
    /\ a.title = b.title
    /\ a.origin = b.origin
    /\ a.destination = b.destination
    /\ a.estimatedDelivery = b.estimatedDelivery
    /\ a.actualDelivery = b.actualDelivery
    /\ a.issueDescription = b.issueDescription
    /\ a.status = b.status
    /\ a.isOrderConfirmed = b.isOrderConfirmed

\* the update of c is answered OK and the list fetched again in this step
Synced(c) ==
    /\ UpdateOk(c)
    /\ client[c].update.idx \in DOMAIN client'[c].shipments

\* C7 as stated: with a single writer, the record decoded after an update was
\* written equals the record the update encoded, on id, title, origin,
\* destination, estimatedDelivery, actualDelivery, issueDescription, status
\* and the confirmation flag
C7_RoundTrip ==
    [][\A c \in Callers :
          Synced(c) =>
              SameOnRoundTripFields(client'[c].shipments[client[c].update.idx],
                                    client[c].update.sent)]_vars

\* C9 as stated: no update request is sent for a shipment that the dashboard
\* shows as cancelled or delivered
C9_TerminalStatuses ==
    [][\A c \in Callers :
          Requests(c) => client'[c].update.originalStatus \notin {Cancelled, Delivered}]_vars

\* C10 as stated: an update to cancelled is only sent for a pending-confirmation
\* shipment, and an update of an in-transit shipment only to delivered or
\* with-issue
C10_CancelOnlyFromPending ==
    [][\A c \in Callers :
          Requests(c) =>
              LET u == client'[c].update
              IN /\ u.newStatus = Cancelled => u.originalStatus = PendingConfirmation
                 /\ u.originalStatus = InTransit => u.newStatus \in {Delivered, WithIssue}]_vars

\* C11 as stated: logistics is not offered the cancellation of a
\* pending-confirmation shipment whose order is confirmed
C11_CancelOnlyUnconfirmed ==
    \A shipment \in Cards("logistics") :
        (/\ shipment.status = PendingConfirmation
         /\ shipment.isOrderConfirmed
         /\ canChangeStatusLogistics(shipment, "logistics"))
            => ~Includes(availableStatusesForDropdown(shipment, "logistics"), Cancelled)

\* the update of c is on its way to the route
InFlight(c) == client[c].pc = "awaiting" /\ req[c].pc = "sent"

\* track-team can report the issue on this card: the state allows one more
\* update and the dialog holds a text that is not blank
ReportsIssue(shipment) ==
    /\ ReportIssue("track-team")
    /\ client'["track-team"].update.current = shipment
    /\ client'["track-team"].update.newStatus = WithIssue
    /\ req'["track-team"].pc = "sent"

\* C12: on every pending-confirmation or in-transit card of track-team the
\* issue report goes through, and the update it sends carries the tags
\* with-issue, followed by order-confirmed exactly when the flag of the card
\* was true
C12_ReportIssueTags ==
    /\ \A shipment \in Cards("track-team") :
          (/\ shipment.status \in {PendingConfirmation, InTransit}
           /\ CanFormat(shipment, tz)
           /\ updates < MaxUpdates)
              => ENABLED ReportsIssue(shipment)
    /\ \A c \in Callers :
          (InFlight(c) /\ client[c].update.newStatus = WithIssue)
              => /\ client[c].update.originalStatus \in {PendingConfirmation, InTransit}
                 /\ client[c].update.sent.issueDescription.has
                 /\ Trim(client[c].update.sent.issueDescription.text) # <<>>
                 /\ req[c].body.hasTags
                 /\ req[c].body.tags =
                       <<WithIssue>> \o (IF client[c].update.current.isOrderConfirmed
                                         THEN <<OrderConfirmed>> ELSE <<>>)

\* an issue report on a confirmed order is on its way
C12_Witness ==
    /\ InFlight("track-team")
    /\ client["track-team"].update.newStatus = WithIssue
    /\ client["track-team"].update.current.isOrderConfirmed
    /\ req["track-team"].body.tags = <<WithIssue, OrderConfirmed>>

\* C13: every update to with-issue, in-transit or delivered is sent by
\* track-team, and every update to cancelled and every update that takes a
\* shipment from with-issue back to pending-confirmation is sent by logistics
C13_RoleOfTransition ==
    \A c \in Callers :
        InFlight(c) =>
            LET u == client[c].update
            IN /\ u.newStatus \in {WithIssue, InTransit, Delivered} => c = "track-team"
               /\ u.newStatus = Cancelled => c = "logistics"
               /\ (u.originalStatus = WithIssue /\ u.newStatus = PendingConfirmation)
                     => c = "logistics"

\* logistics resolves an issue that track-team reported
C13_Witness ==
    /\ InFlight("logistics")
    /\ client["logistics"].update.originalStatus = WithIssue
    /\ client["logistics"].update.newStatus = PendingConfirmation
    /\ client["logistics"].update.current.issueDescription.has

\* c acts on a card and no update request leaves the dashboard
Rejected(c) ==
    /\ SelectStatus(c) \/ ConfirmOrder(c) \/ ConfirmReceipt(c) \/ ReportIssue(c)
    /\ req'[c].pc = "idle"

ActualDeliveryOf(d) == parseShipmentNotes(d.notes).actualDelivery

\* C15 as stated: the Actual Delivery of the document is first written by the
\* update of track-team that takes the shipment from in-transit to delivered,
\* and once it is there no later write changes or clears it
C15_ActualDeliveryOnce ==
    [][/\ ActualDeliveryOf(doc).has => ActualDeliveryOf(doc') = ActualDeliveryOf(doc)
       /\ (~ActualDeliveryOf(doc).has /\ ActualDeliveryOf(doc').has)
             => LET u == client["track-team"].update
                IN /\ client["track-team"].pc = "awaiting"
                   /\ u.originalStatus = InTransit
                   /\ u.newStatus = Delivered
                   /\ ~u.current.actualDelivery.has]_vars

\* the update of c fails in this step: an error status, or a fetch that throws
Failed(c) == UpdateNotOk(c) \/ UpdateThrows(c)

FlagWritten(body) == parseShipmentNotes(NotesOf(body.notes)).isOrderConfirmed.v

\* C17 as stated: the tags of every update are the target status, followed by
\* order-confirmed exactly when the notes of the same update carry
\* Order Confirmed: true
C17_TagsAgreeWithFlag ==
    \A c \in Callers :
        InFlight(c) =>
            /\ req[c].body.hasTags
            /\ req[c].body.hasNotes
            /\ req[c].body.tags =
                  <<client[c].update.newStatus>>
                  \o (IF FlagWritten(req[c].body) THEN <<OrderConfirmed>> ELSE <<>>)

\* the notes of d hold a line Order Confirmed: true (the value in any case)
SaysConfirmed(d) ==
    /\ d.notes.shape = "string"
    /\ \E line \in SetOf(Split(d.notes.text, "\n")) :
          LET parts == Split(line, ": ")
          IN /\ Len(parts) = 2
             /\ parts[1] = <<"Order Confirmed">>
             /\ ToLowerCase(Trim(parts[2])) = <<"true">>

FlagOf(d) == isOrderConfirmedFromTag(d) \/ isOrderConfirmedFromNotes(parseShipmentNotes(d.notes))

\* C19 as stated: the update that resolves an issue writes the flag the card
\* had, and no write takes the document from a flag that decodes true to a
\* flag that decodes false
C19_FlagPreserved ==
    [][/\ \A c \in Callers :
             LET v == client'[c].update
             IN (/\ Requests(c)
                 /\ v.originalStatus = WithIssue
                 /\ v.newStatus = PendingConfirmation)
                    => /\ FlagWritten(req'[c].body) = v.current.isOrderConfirmed
                       /\ Includes(req'[c].body.tags, OrderConfirmed) = v.current.isOrderConfirmed
       /\ FlagOf(doc) => FlagOf(doc')]_vars

\* C20 as stated: on every pending-confirmation card of track-team, whatever
\* its flag, Confirm Order is there to be pressed
C20_ConfirmOrderEnabled ==
    \A shipment \in Cards("track-team") :
        shipment.status = PendingConfirmation => canConfirmOrder(shipment, "track-team")

-----------------------------------------------------------------------------
(* Claims about creation, stock and the notes (SpecCreate, SpecShort) *)

\* the update of c that ends in this step is a cancellation whose stock is restored
RestoresStock(c) ==
    /\ UpdateOk(c)
    /\ c = "logistics"
    /\ client[c].update.newStatus = Cancelled
    /\ client[c].update.originalStatus = PendingConfirmation
    /\ ~client[c].update.current.isOrderConfirmed

\* the units of product pid on the lines of a shipment
UnitsOf(shipment, pid) ==
    SumSeq(MapSeq(LAMBDA item : IF item.productId = pid THEN item.units ELSE 0,
                  shipment.products))

\* the store took the restoration of every product, of none, of some
RestoredAll(c) ==
    \A pid \in ProductIds :
        holdedStock'[pid] = holdedStock[pid] + UnitsOf(client[c].update.current, pid)

RestoredNone == holdedStock' = holdedStock

RestoredSome(c) == ~RestoredAll(c) /\ ~RestoredNone

\* C21 as stated: a restoration that failed for some products but not for all
\* is reported as Partial Stock Restore and leaves the local stock levels as
\* they were; the report differs from that of a restoration that succeeded for
\* all products and from that of a restoration that failed for all
C21_PartialRestoreDistinct ==
    [][\A c \in Callers :
          RestoresStock(c) =>
              /\ RestoredSome(c) =>
                    /\ client'[c].toast \in {"Partial Stock Restore", "Error Loading Shipments"}
                    /\ client'[c].stockLevel = client[c].stockLevel
              /\ RestoredAll(c) => client'[c].toast # "Partial Stock Restore"
              /\ RestoredNone => client'[c].toast # "Partial Stock Restore"]_vars

\* the update of c that ends in this step asked for the status cancelled
CancelEnds(c) == client[c].pc = "awaiting" /\ client[c].update.newStatus = Cancelled

\* the dashboard of c reports on a stock restoration after this step (or that
\* the list could not be fetched after it)
ReportsRestoration(c) ==
    client'[c].toast \in {"Stock Restored", "Partial Stock Restore", "Error Loading Shipments"}

\* C22 as stated: every update into cancelled that is answered OK is followed,
\* within the same operation, by the attempt to restore the stock of each
\* product of the shipment, so the operation ends on a report about the
\* restoration; a cancellation whose update request failed leaves the stock of
\* the store as it was
C22_CancelRestoresStock ==
    [][\A c \in Callers :
          /\ (UpdateOk(c) /\ CancelEnds(c)) => ReportsRestoration(c)
          /\ ((UpdateNotOk(c) \/ UpdateThrows(c)) /\ CancelEnds(c)) =>
                holdedStock' = holdedStock]_vars

\* the keys of the lines of a notes text, in the order of the lines
KeysOf(text) == MapSeq(LAMBDA line : Split(line, ": ")[1], Split(text, "\n"))

\* the six lines every notes text has, then Actual Delivery and Issue or not
FixedKeys ==
    << <<"Shipment Title">>, <<"Origin">>, <<"Destination">>, <<"Est. Delivery">>,
       <<"Internal Shipment ID">>, <<"Order Confirmed">> >>

KeyOrders ==
    { FixedKeys \o actual \o issue :
        actual \in {<<>>, << <<"Actual Delivery">> >>},
        issue \in {<<>>, << <<"Issue">> >>} }

\* the notes texts the app has written: the one on the document and the ones
\* of the update requests on their way
NotesWritten ==
    {doc.notes.text} \cup {req[c].body.notes : c \in {k \in Callers : req[k].body.hasNotes}}

\* C23 as stated: every notes text the app writes has the lines Shipment
\* Title, Origin, Destination, Est. Delivery, Internal Shipment ID, Order
\* Confirmed in this order, then Actual Delivery or not, then Issue or not, and
\* no line of another key or in another place
C23_NotesLinesFixed == \A text \in NotesWritten : KeysOf(text) \in KeyOrders

-----------------------------------------------------------------------------
(* SpecForeign: one dashboard, and another tool that tags the document *)

\* the tags another tool puts on an invoice
ForeignTags == {Str(<<"sensor">>), Str(<<"Sensor">>)}

\* another actor adds a tag to the document in the store
AddForeignTag ==
    /\ Len(doc.tags) <= MaxLiveTags
    /\ \E tag \in ForeignTags :
          /\ tag \notin SetOf(doc.tags)
          /\ doc' = [doc EXCEPT !.tags = Append(@, tag)]
    /\ UNCHANGED <<route, req, orig, lastWrite, others, listing, now, client, tz,
                   holdedStock, updates>>

InitForeign == \E c \in Callers : InitDashboard({c}, {<<Str(PendingConfirmation)>>}, {0})

NextForeign ==
    \/ \E c \in Callers : ClientStep(c)
    \/ \E c \in Callers : RouteServe(c)
    \/ AddForeignTag

SpecForeign == InitForeign /\ [][NextForeign]_vars

\* the entry is not among the tags of the shipment as c last read it
NotCached(c, entry) ==
    ReplaceSpaces(ToLowerCase(entry.name)) \notin SetOf(client[c].update.current.tags)

Fetches(c) == req[c].pc = "sent" /\ req'[c].pc = "fetched"

-----------------------------------------------------------------------------
(* Claims about the creation of shipments (SpecCreate) *)

\* the toasts of a creation that failed
CreationFailures ==
    {"Insufficient Local Stock", "Invoice Creation Error", "Invoice Creation Failed",
     "Invoice Data Error", "Creation Process Error"}

\* the store has a new invoice after this step
InvoiceStored == doc'.id # doc.id

\* handleAddShipment runs in this step: it ends on one of its toasts, or on
\* that of the list fetch after the store took the invoice
CreationEnds(c) ==
    /\ client[c].pc = "idle"
    /\ client'[c].pc = "idle"
    /\ \/ client'[c].toast \in CreationFailures \cup {"Shipment & Invoice Created"}
       \/ InvoiceStored

\* the units of product pid on the lines of an invoice
InvoiceUnits(inv, pid) ==
    SumSeq(MapSeq(LAMBDA line : IF line.productId = pid THEN line.units ELSE 0,
                  inv.products.items))

\* C25: in a step of handleAddShipment, an invoice reaches the store only if
\* the local stock of every product covered the units asked for; the local
\* stock changes only when the store has the new invoice and the creation is
\* reported as done, and then by the units of the invoice; and a creation that
\* ends on a failure toast leaves the local stock and the shipment list as
\* they were
C25_CreationSequenced ==
    [][CreationEnds("logistics") =>
          LET before == client["logistics"]
              after == client'["logistics"]
          IN /\ InvoiceStored =>
                   \A pid \in ProductIds : InvoiceUnits(doc', pid) <= before.stockLevel[pid]
             /\ after.stockLevel # before.stockLevel =>
                   /\ InvoiceStored
                   /\ after.toast \in {"Shipment & Invoice Created", "Error Loading Shipments"}
                   /\ \A pid \in ProductIds :
                         after.stockLevel[pid] = before.stockLevel[pid] - InvoiceUnits(doc', pid)
             /\ after.toast \in CreationFailures =>
                   /\ after.stockLevel = before.stockLevel
                   /\ after.shipments = before.shipments]_vars

\* the two-product shipment has been created: the store has its invoice, the
\* list shows both shipments and the local stock is down by its units
C25_Witness ==
    /\ client["logistics"].toast = "Shipment & Invoice Created"
    /\ Len(client["logistics"].shipments) = 2
    /\ doc.id = <<"inv2">>
    /\ \A pid \in ProductIds :
          client["logistics"].stockLevel[pid] = CatalogueStock[pid] - InvoiceUnits(doc, pid)
    /\ \A pid \in ProductIds : InvoiceUnits(doc, pid) > 0

-----------------------------------------------------------------------------
(* Claims about the status on the document (Spec, SpecShort) *)

StatusLetters == RecognizedLetters \ {<<"order", "confirmed">>}

\* the entries of a tag list that spell a status
StatusTagsOn(tags) ==
    SelectSeq(tags, LAMBDA e : e.shape \in {"string", "object"}
                               /\ Letters(e.name) \in StatusLetters)

\* the status the last written update asked for, pending-confirmation before any
LastRequestedStatus ==
    IF lastWrite.set
    THEN SelectSeq(lastWrite.tags, LAMBDA tag : Letters(tag) \in StatusLetters)[1]
    ELSE PendingConfirmation

\* C26 as stated: after the creation and any updates written through the app,
\* with no tag of another writer on it, the document carries exactly one
\* status tag and decodes to the status of the latest written update
C26_OneStatusTag ==
    (\A i \in DOMAIN doc.tags : ~IsForeignEntry(doc.tags[i])) =>
        /\ Len(StatusTagsOn(doc.tags)) = 1
        /\ decode(doc, now).status = LastRequestedStatus

\* the cancellation logistics asked for on a card that showed the order
\* unconfirmed is written in this step, on a document recorded as confirmed
StaleCancelWritten ==
    /\ client["logistics"].pc = "awaiting"
    /\ client["logistics"].update.newStatus = Cancelled
    /\ ~client["logistics"].update.current.isOrderConfirmed
    /\ req["logistics"].pc = "fetched"
    /\ req'["logistics"].pc = "done"
    /\ doc' # doc
    /\ FlagOf(doc)

\* C27 as stated: when track-team has confirmed the order and logistics
\* cancels from a list read before that, the write of the cancellation leaves
\* the document not cancelled and still recorded as order-confirmed
C27_ConfirmWinsOverStaleCancel ==
    [][StaleCancelWritten => (statusTag(doc') # Cancelled /\ FlagOf(doc'))]_vars

-----------------------------------------------------------------------------
(* Claims about the payload of the route (SpecRoute) *)

\* the request of c has been answered
Answered(c) == req[c].pc = "done"

\* the body of the request carries nothing to update
NothingToUpdate(body) == ~body.hasTags /\ ~body.hasNotes /\ ~body.hasCustomFields

\* the payload has tags only if the body has, notes only if the body has, and
\* as long as no tags were written the document has the tags it started with
PayloadWithinBody ==
    /\ \A c \in Callers :
          (Answered(c) /\ req[c].putIssued) =>
              /\ req[c].payload.hasTags => req[c].body.hasTags
              /\ req[c].payload.hasNotes => req[c].body.hasNotes
    /\ ~lastWrite.set => doc.tags = orig

\* C28 as stated: the payload stays within the body, and a request whose body
\* carries neither tags, notes nor customFields is answered 400 with no write
C28_PayloadFrame ==
    /\ PayloadWithinBody
    /\ \A c \in Callers :
          (Answered(c) /\ NothingToUpdate(req[c].body)) =>
              /\ req[c].resp = "bad-request"
              /\ ~req[c].putIssued

\* C28 amended: such a request causes no write, and is answered 400 once the
\* route has fetched the current invoice
C28_PayloadFrameAfterFetch ==
    /\ PayloadWithinBody
    /\ \A c \in Callers :
          (Answered(c) /\ NothingToUpdate(req[c].body)) =>
              /\ ~req[c].putIssued
              /\ req[c].fetchOk <=> req[c].resp = "bad-request"

\* a notes-only update has been written to a document that carries tags, and
\* no tags were written before it
C28_Witness ==
    /\ Answered(SingleWriter)
    /\ req[SingleWriter].resp = "ok"
    /\ req[SingleWriter].body.hasNotes
    /\ ~req[SingleWriter].body.hasTags
    /\ doc.notes = NotesOf(SomeNotes)
    /\ ~lastWrite.set
    /\ Len(doc.tags) = MaxLiveTags

-----------------------------------------------------------------------------
(* Claims about the issue description in the notes (SpecShort) *)

\* the notes end with the Issue part for this text
EndsWithIssue(notes, text) ==
    LET part == <<"\n", "Issue", ": ">> \o text
    IN /\ Len(notes) >= Len(part)
       /\ SubSeq(notes, Len(notes) - Len(part) + 1, Len(notes)) = part

\* the notes have a line with the key Issue
HasIssueLine(notes) == \E i \in DOMAIN KeysOf(notes) : KeysOf(notes)[i] = <<"Issue">>

\* C29: the notes of an update into with-issue end with the Issue part for the
\* text entered; those of an update that resolves an issue have no Issue line
\* and decode without an issue description; those of any other update decode
\* to the issue description the shipment had, or to none if it had none
C29_IssueDescriptionFrame ==
    \A c \in Callers :
        InFlight(c) =>
            LET u == client[c].update
                notes == req[c].body.notes
                decoded == parseShipmentNotes(NotesOf(notes)).issueDescription
            IN /\ req[c].body.hasNotes
               /\ IF u.newStatus = WithIssue
                  THEN EndsWithIssue(notes, u.sent.issueDescription.text)
                  ELSE IF u.originalStatus = WithIssue /\ u.newStatus = PendingConfirmation
                  THEN ~HasIssueLine(notes) /\ ~decoded.has
                  ELSE /\ decoded.text = u.current.issueDescription.text
                       /\ HasIssueLine(notes) <=> u.current.issueDescription.text # <<>>

\* logistics resolves an issue that track-team reported with a text
C29_Witness ==
    /\ InFlight("logistics")
    /\ client["logistics"].update.originalStatus = WithIssue
    /\ client["logistics"].update.newStatus = PendingConfirmation
    /\ client["logistics"].update.current.issueDescription.text = <<"x", " ", "y">>

-----------------------------------------------------------------------------
(* Claims about the local stock (SpecCreate) *)

====
